---- MODULE Spec2Model ----
(***************************************************************************)
(* Model of the report-comment worker: the four request handlers           *)
(* (functions/api/comment.js in its fallback and its OpenAI form, the      *)
(* single-model handler, the model-listing handler), their shared          *)
(* fetchWithRetry loop and the input sanitizers.                           *)
(*                                                                         *)
(* JavaScript strings are sequences of one-character strings, so that      *)
(* trim, filter(Boolean) and slice are computed as the code computes them. *)
(* JavaScript values are tagged records.                                   *)
(***************************************************************************)
EXTENDS Integers, Sequences, FiniteSets, TLC

VARIABLES
    deployment,   \* which of the four worker files is deployed
    handler,      \* the function serving the request, "" before routing
    request,      \* [method, url, contentType, body]: the incoming request
    env,          \* [apiKey, model]: the configured secret and preferred model
    pc,           \* position of the async handler
    payload,      \* sanitized {studentFirstName, strengthTopics, ...}
    candidates,   \* modelCandidates (one entry for the single-model handlers)
    idx,          \* position of the for..of loop over modelCandidates
    lastErr,      \* handleComment's lastErr
    retries,      \* fetchWithRetry's retries parameter
    i,            \* fetchWithRetry's loop counter
    last,         \* fetchWithRetry's last
    calls,        \* every fetch issued so far: [model, status]
    sleeps,       \* every sleep(ms) started so far: [model, ms]
    ret,          \* the caller's `resp`: what its latest provider call returned
    response,     \* the handler's Response, NoResponse while it runs
    other         \* the locals of a second invocation suspended at its await

vars == <<deployment, handler, request, env, pc, payload, candidates, idx,
          lastErr, retries, i, last, calls, sleeps, ret, response, other>>

-----------------------------------------------------------------------------
(* JavaScript values *)

Undefined == [t |-> "undefined", s |-> <<>>, n |-> 0]
Null == [t |-> "null", s |-> <<>>, n |-> 0]
Str(s) == [t |-> "string", s |-> s, n |-> 0]
Num(n) == [t |-> "number", s |-> <<>>, n |-> n]
Arr(a) == [t |-> "array", a |-> a]

\* What trim() removes: the WhiteSpace and LineTerminator characters of
\* ECMAScript. TAB, LF, FF, CR, the blank and VT (U+000B) are written as they
\* are; the characters outside ASCII are named by their code point.
Whitespace ==
    {" ", "\t", "\n", "\r", "\f", "", "U+00A0", "U+1680", "U+FEFF",
     "U+2000", "U+2001", "U+2002", "U+2003", "U+2004", "U+2005", "U+2006",
     "U+2007", "U+2008", "U+2009", "U+200A", "U+2028", "U+2029", "U+202F",
     "U+205F", "U+3000"}
Digits == <<"0", "1", "2", "3", "4", "5", "6", "7", "8", "9">>

\* Truthiness, as `||`, `!` and filter(Boolean) see a value.
Truthy(v) ==
    CASE v.t = "undefined" -> FALSE
      [] v.t = "null" -> FALSE
      [] v.t = "string" -> v.s # <<>>
      [] v.t = "number" -> v.n # 0
      [] OTHER -> TRUE

\* String(v) for the values above (single-digit numbers).
String(v) ==
    CASE v.t = "string" -> v.s
      [] v.t = "number" -> <<Digits[v.n + 1]>>
      [] v.t = "undefined" -> <<"u", "n", "d", "e", "f", "i", "n", "e", "d">>
      [] v.t = "null" -> <<"n", "u", "l", "l">>

\* v ?? d
Coalesce(v, d) == IF v.t \in {"undefined", "null"} THEN d ELSE v

\* v || d
OrElse(v, d) == IF Truthy(v) THEN v ELSE d

\* the first position of s from k up that holds no white space, Len(s) + 1 if none
RECURSIVE SkipStart(_, _)
SkipStart(s, k) ==
    IF k <= Len(s) /\ s[k] \in Whitespace THEN SkipStart(s, k + 1) ELSE k

\* the last position of s from k down that holds no white space, 0 if none
RECURSIVE SkipEnd(_, _)
SkipEnd(s, k) ==
    IF k >= 1 /\ s[k] \in Whitespace THEN SkipEnd(s, k - 1) ELSE k

TrimStart(s) == SubSeq(s, SkipStart(s, 1), Len(s))

TrimEnd(s) == SubSeq(s, 1, SkipEnd(s, Len(s)))

\* String.prototype.trim
Trim(s) == TrimEnd(TrimStart(s))

\* Array.prototype.filter(Boolean) on an array of strings
FilterBoolean(a) == SelectSeq(a, LAMBDA x : x # <<>>)

\* Array.prototype.slice(0, n)
Slice0(a, n) == SubSeq(a, 1, IF Len(a) < n THEN Len(a) ELSE n)

-----------------------------------------------------------------------------
(* Input sanitizers *)

TopicCap == 10

safeStr(v) == Trim(String(Coalesce(v, Str(<<>>))))

\* slice(0, 10) taken before the empty entries are dropped
safeArrSliceFirst(v) ==
    IF v.t # "array" THEN <<>>
    ELSE FilterBoolean([k \in 1..Len(Slice0(v.a, TopicCap)) |->
                           Trim(String(Coalesce(v.a[k], Str(<<>>))))])

safeArr(v) ==
    IF v.t # "array" THEN <<>>
    ELSE Slice0(FilterBoolean([k \in 1..Len(v.a) |->
                                  Trim(String(Coalesce(v.a[k], Str(<<>>))))]),
                TopicCap)

StudentDefault == Str(<<"S", "t", "u", "d", "e", "n", "t">>)

\* const studentFirstName = safeStr(body.studentFirstName || "Student")
sanitizeName(body) == safeStr(OrElse(body.studentFirstName, StudentDefault))

\* The four sanitized fields, as the handlers put them in `payload`.
sanitize(body) ==
    [studentFirstName |-> sanitizeName(body),
     strengthTopics |-> safeArr(body.strengthTopics),
     developingTopics |-> safeArr(body.developingTopics),
     focusTopics |-> safeArr(body.focusTopics)]

-----------------------------------------------------------------------------
(* Provider responses *)

\* Body texts a provider call can answer with.
BodyGemini ==
    "{\"candidates\":[{\"content\":{\"parts\":[{\"text\":\" Ava 2\"},{\"text\":\"\"},{\"text\":\"ok \"}]}}]}"
BodyOpenAI == "{\"output_text\":\"Ben 4 ok\\r\\n\"}"
BodyModels == "{\"models\":[{\"name\":\"models/gemini-1.5-flash\"},{\"name\":\"\"}]}"
BodyError == "{\"error\":{\"code\":404,\"message\":\"model not found\"}}"
BodyHtml == "<html>Too Many Requests</html>"

\* Success bodies whose text has digits at its ends, is digits only, or is absent.
BodyGeminiDigits ==
    "{\"candidates\":[{\"content\":{\"parts\":[{\"text\":\"7 Ava\"},{\"inlineData\":true},{\"text\":\" 7\"}]}}]}"
BodyGeminiOnlyDigits == "{\"candidates\":[{\"content\":{\"parts\":[{\"text\":\"2024\"}]}}]}"
BodyGeminiNoCandidates == "{\"candidates\":[]}"
BodyGeminiNoParts == "{\"candidates\":[{\"content\":{\"role\":\"model\"}}]}"
BodyGeminiEmptyParts ==
    "{\"candidates\":[{\"content\":{\"parts\":[{\"text\":\"\"},{\"inlineData\":true}]}}]}"
BodyOpenAIOutput ==
    "{\"output\":[{\"type\":\"reasoning\"},{\"content\":[{\"text\":\" 3 Cy 9 \"},{\"type\":\"refusal\"}]}]}"
BodyOpenAIBlank == "{\"output_text\":\" \\n\",\"output\":[{\"content\":[{\"text\":\"\"}]}]}"
BodyOpenAINoOutput == "{\"output\":[]}"

\* What each endpoint answers with: its own success shape, an error object, or
\* a body that is no JSON.
ProviderBodies(h) ==
    CASE h = "onRequestPost" -> {BodyOpenAI, BodyError, BodyHtml}
      [] h \in {"handleListModels", "onRequest"} -> {BodyModels, BodyError, BodyHtml}
      [] OTHER -> {BodyGemini, BodyError, BodyHtml}

\* Statuses a provider call can answer with.
Statuses == {200, 404, 429}

\* JSON.parse on the texts above; BodyHtml is no JSON text.
IsJSON(text) ==
    text \in {BodyGemini, BodyOpenAI, BodyModels, BodyError, BodyGeminiDigits,
              BodyGeminiOnlyDigits, BodyGeminiNoCandidates, BodyGeminiNoParts,
              BodyGeminiEmptyParts, BodyOpenAIOutput, BodyOpenAIBlank,
              BodyOpenAINoOutput}

JSONparse(text) ==
    CASE text = BodyGemini ->
           [candidates |-> <<[content |-> [parts |->
               <<[text |-> <<" ", "A", "v", "a", " ", "2">>],
                 [text |-> <<>>],
                 [text |-> <<"o", "k", " ">>]>>]]>>]
      [] text = BodyOpenAI ->
           [output_text |-> <<"B", "e", "n", " ", "4", " ", "o", "k", "\r", "\n">>]
      [] text = BodyModels ->
           [models |-> <<[name |-> <<"models/gemini-1.5-flash">>], [name |-> <<>>]>>]
      [] text = BodyError ->
           [error |-> [code |-> 404, message |-> "model not found"]]
      [] text = BodyGeminiDigits ->
           [candidates |-> <<[content |-> [parts |->
               <<[text |-> <<"7", " ", "A", "v", "a">>],
                 [inlineData |-> TRUE],
                 [text |-> <<" ", "7">>]>>]]>>]
      [] text = BodyGeminiOnlyDigits ->
           [candidates |-> <<[content |-> [parts |->
               <<[text |-> <<"2", "0", "2", "4">>]>>]]>>]
      [] text = BodyGeminiNoCandidates -> [candidates |-> <<>>]
      [] text = BodyGeminiNoParts -> [candidates |-> <<[content |-> [role |-> "model"]]>>]
      [] text = BodyGeminiEmptyParts ->
           [candidates |-> <<[content |-> [parts |->
               <<[text |-> <<>>], [inlineData |-> TRUE]>>]]>>]
      [] text = BodyOpenAIOutput ->
           [output |-> <<[type |-> "reasoning"],
                         [content |-> <<[text |-> <<" ", "3", " ", "C", "y", " ", "9", " ">>],
                                        [type |-> "refusal"]>>]>>]
      [] text = BodyOpenAIBlank ->
           [output_text |-> <<" ", "\n">>,
            output |-> <<[content |-> <<[text |-> <<>>]>>]>>]
      [] text = BodyOpenAINoOutput -> [output |-> <<>>]

\* A Response of fetch: seq tells the responses of one request apart.
Resp(status, text, seq) == [status |-> status, text |-> text, seq |-> seq]
NoResp == Resp(0, "", 0)

\* `resp.status >= 200` without the upper bound of Response.ok
okNoUpperBound(resp) == resp.status >= 200

\* Response.ok
ok(resp) == resp.status >= 200 /\ resp.status <= 299

\* new Response(JSON.stringify(obj), {status})
json(obj, status) == [status |-> status, body |-> obj]
NoResponse == json([pending |-> TRUE], 0)

\* async function safeJson(resp): the parsed body, {raw: text} when it is no JSON
safeJson(resp) ==
    IF IsJSON(resp.text) THEN JSONparse(resp.text) ELSE [raw |-> resp.text]

\* the strings of a from position k on, concatenated
RECURSIVE JoinFrom(_, _)
JoinFrom(a, k) == IF k > Len(a) THEN <<>> ELSE a[k] \o JoinFrom(a, k + 1)

\* Array.prototype.join("")
Join(a) == JoinFrom(a, 1)

\* data?.candidates?.[0]?.content?.parts?.map(p => p.text).filter(Boolean).join("") || ""
geminiText(data) ==
    IF /\ "candidates" \in DOMAIN data
       /\ Len(data.candidates) > 0
       /\ "content" \in DOMAIN data.candidates[1]
       /\ "parts" \in DOMAIN data.candidates[1].content
    THEN LET parts == data.candidates[1].content.parts
         IN Join(FilterBoolean([k \in 1..Len(parts) |->
                IF "text" \in DOMAIN parts[k] THEN parts[k].text ELSE <<>>]))
    ELSE <<>>

RECURSIVE collectText(_)
collectText(content) ==
    IF content = <<>> THEN <<>>
    ELSE (IF "text" \in DOMAIN Head(content)
          THEN Head(content).text \o <<"\n">> ELSE <<>>)
         \o collectText(Tail(content))

RECURSIVE collectOutput(_)
collectOutput(out) ==
    IF out = <<>> THEN <<>>
    ELSE (IF "content" \in DOMAIN Head(out) THEN collectText(Head(out).content) ELSE <<>>)
         \o collectOutput(Tail(out))

\* function extractText(data) of the OpenAI handler
extractText(data) ==
    IF "output_text" \in DOMAIN data /\ Trim(data.output_text) # <<>>
    THEN data.output_text
    ELSE IF "output" \in DOMAIN data /\ Trim(collectOutput(data.output)) # <<>>
    THEN Trim(collectOutput(data.output))
    ELSE <<>>

IsDigit(c) == \E k \in 1..Len(Digits) : Digits[k] = c

\* String(s || "").replace(/[0-9]/g, "")
stripDigits(s) == SelectSeq(s, LAMBDA c : ~IsDigit(c))

\* the trim applied before the digits are removed
commentOfTrimFirst(text) == stripDigits(Trim(text))

\* comment: stripDigits(text).trim()
commentOf(text) == Trim(stripDigits(text))

\* (data?.models || []).map(m => m?.name).filter(Boolean)
modelNames(data) ==
    IF "models" \in DOMAIN data
    THEN FilterBoolean([k \in 1..Len(data.models) |-> data.models[k].name])
    ELSE <<>>

-----------------------------------------------------------------------------
(* Requests and configuration *)

\* s.includes(part) / s.endsWith(part), on strings cut so that `part` is a piece
Includes(s, part) == \E k \in 1..Len(s) : s[k] = part
EndsWith(s, part) == s # <<>> /\ s[Len(s)] = part

ApplicationJson == "application/json"

\* request.url as <<origin, path>>: the url of a Request is always absolute
Origin == "https://reports.example"

\* new URL(u) with no base: a TypeError unless u is absolute
isAbsoluteURL(u) == u # <<>> /\ Head(u) = Origin

\* new URL(u).pathname
pathname(u) == Tail(u)

\* only the presence of the header is checked
isJsonRequestAnyType(req) == req.contentType.t = "string"

\* request.headers.get("content-type")?.includes("application/json")
\* (contentType || "").includes("application/json") in the OpenAI handler
isJsonRequest(req) ==
    req.contentType.t = "string" /\ Includes(req.contentType.s, ApplicationJson)

\* `apiKey === undefined` instead of `!apiKey`: an empty secret passes
hasCredentialDefined(e) == e.apiKey.t # "undefined"

\* `if (!apiKey)` answers 500: the credential is there when it is truthy
hasCredential(e) == Truthy(e.apiKey)

DefaultRetries == 3

\* 800 * Math.pow(2, i) in comment.js, 1000 * Math.pow(2, i) in the single-model file
backoffBase(d) == IF d = "single" THEN 1000 ELSE 800

\* a delay growing by the base each time instead of doubling
backoffLinear(d, n) == backoffBase(d) * (n + 1)

backoff(d, n) == backoffBase(d) * 2 ^ n

Fallbacks ==
    <<<<"gemini-1.5-flash-001">>, <<"gemini-1.5-pro-001">>,
      <<"gemini-1.5-flash">>, <<"gemini-1.5-pro">>>>

\* [preferred, ...fallbacks] without filter(Boolean): an empty preferred id stays
modelCandidatesNoFilter(e) == <<safeStr(OrElse(e.model, Str(<<>>)))>> \o Fallbacks

\* [preferred, ...fallbacks].filter(Boolean), preferred = safeStr(env.GEMINI_MODEL || "")
modelCandidates(e) ==
    FilterBoolean(<<safeStr(OrElse(e.model, Str(<<>>)))>> \o Fallbacks)

SingleModel == <<"gemini-1.5-flash">>
OpenAIDefaultModel == Str(<<"gpt-4o-mini">>)
ListEndpoint == <<"models?key=">>

NullErr == [t |-> "null"]

ExpectedJson == json([error |-> "Expected application/json"], 400)
MissingKey(name) == json([error |-> name], 500)
ServerError(detail) == json([error |-> "Server error", detail |-> detail], 500)
UsePost == [status |-> 405, body |-> [text |-> "Use POST"]]
NotFound == [status |-> 404, body |-> [text |-> "Not found"]]

\* await request.json() rejects, or reading a property of null throws
bodyThrows(req) == req.body.kind # "object"
bodyError(req) ==
    IF req.body.kind = "unparsable" THEN "Unexpected token in JSON"
    ELSE "Cannot read properties of null"

-----------------------------------------------------------------------------
(* Steps shared by the handlers *)

Pending == 0
Rejected == -1

Reply(r) == response' = r /\ pc' = "done"

NoLoop == UNCHANGED <<candidates, idx, lastErr>>
NoCall == UNCHANGED <<retries, i, last, calls, sleeps, ret>>

\* the call sent twice at once, the two fetches racing
StartCallHedged(model, log, r) ==
    /\ retries' = r
    /\ i' = 0
    /\ last' = NoResp
    /\ calls' = log \o <<[model |-> model, status |-> Pending, turn |-> idx'],
                         [model |-> model, status |-> Pending, turn |-> idx']>>
    /\ pc' = "fetch"

\* fetchWithRetry(url, options, r) up to its first `await fetch(url, options)`;
\* the call is logged with the turn of the candidate loop that makes it
StartCall(model, log, r) ==
    /\ retries' = r
    /\ i' = 0
    /\ last' = NoResp
    /\ calls' = Append(log, [model |-> model, status |-> Pending, turn |-> idx'])
    /\ pc' = "fetch"

\* a bare `await fetch(url, ...)` of the handlers that do not retry
StartFetch(model, log) ==
    /\ calls' = Append(log, [model |-> model, status |-> Pending, turn |-> idx'])
    /\ pc' = "fetch"
    /\ UNCHANGED <<retries, i, last>>

\* the handler goes on after its provider call without starting another one
EndCall(log, iEnd) ==
    /\ calls' = log
    /\ i' = iEnd
    /\ UNCHANGED <<retries, last>>

-----------------------------------------------------------------------------
(* comment.js, lines 1-206: model fallback *)

\* handleComment up to `await request.json()`
handleComment ==
    /\ UNCHANGED payload /\ NoLoop /\ NoCall
    /\ IF ~isJsonRequest(request)
       THEN Reply(ExpectedJson)
       ELSE pc' = "body" /\ UNCHANGED response

\* handleComment from the request body read to the first provider call
handleCommentBody ==
    IF bodyThrows(request)
    THEN Reply(ServerError(bodyError(request))) /\ UNCHANGED payload /\ NoLoop /\ NoCall
    ELSE /\ payload' = sanitize(request.body)
         /\ IF ~hasCredential(env)
            THEN Reply(MissingKey("Missing GEMINI_API_KEY secret")) /\ NoLoop /\ NoCall
            ELSE /\ candidates' = modelCandidates(env)
                 /\ idx' = 1
                 /\ lastErr' = NullErr
                 /\ StartCall(modelCandidates(env)[1], calls, DefaultRetries)
                 /\ UNCHANGED <<sleeps, ret, response>>

\* the upstream status is dropped: always the generic 500
errStatusGeneric(e) == 500

\* lastErr?.status || 500
errStatus(e) == IF e.t = "object" /\ e.status # 0 THEN e.status ELSE 500

AllFailed(e) ==
    json([error |-> "Gemini error",
          message |-> "All candidate models failed. Use /api/models to see available model IDs for your key.",
          lastError |-> e],
         errStatus(e))

\* handleComment with the `return` of the success branch lost: the comment is
\* kept as the response but the loop goes on to the next candidate
handleCommentResumeNoReturn(resp, log, iEnd) ==
    LET data == safeJson(resp)
        err == [t |-> "object", status |-> resp.status, data |-> data,
                model |-> candidates[idx]]
        success == json([comment |-> commentOf(geminiText(data)),
                         _modelUsed |-> candidates[idx]], 200)
    IN /\ lastErr' = IF ok(resp) THEN lastErr ELSE err
       /\ IF idx < Len(candidates)
          THEN /\ idx' = idx + 1
               /\ StartCall(candidates[idx + 1], log, DefaultRetries)
               /\ response' = IF ok(resp) THEN success ELSE response
          ELSE /\ Reply(IF ok(resp) THEN success ELSE AllFailed(err))
               /\ EndCall(log, iEnd)
               /\ UNCHANGED idx

\* `if (resp.ok && text)`: a 2xx answer without text counts as a failure
handleCommentResumeNeedsText(resp, log, iEnd) ==
    LET data == safeJson(resp)
        err == [t |-> "object", status |-> resp.status, data |-> data,
                model |-> candidates[idx]]
    IN IF ok(resp) /\ geminiText(data) # <<>>
       THEN /\ Reply(json([comment |-> commentOf(geminiText(data)),
                           _modelUsed |-> candidates[idx]], 200))
            /\ EndCall(log, iEnd)
            /\ UNCHANGED <<idx, lastErr>>
       ELSE /\ lastErr' = err
            /\ IF idx < Len(candidates)
               THEN /\ idx' = idx + 1
                    /\ StartCall(candidates[idx + 1], log, DefaultRetries)
                    /\ UNCHANGED response
               ELSE /\ Reply(AllFailed(err))
                    /\ EndCall(log, iEnd)
                    /\ UNCHANGED idx

\* handleComment from `const data = await safeJson(resp)` to the next provider
\* call or the return
handleCommentResume(resp, log, iEnd) ==
    LET data == safeJson(resp)
        err == [t |-> "object", status |-> resp.status, data |-> data,
                model |-> candidates[idx]]
    IN IF ok(resp)
       THEN /\ Reply(json([comment |-> commentOf(geminiText(data)),
                           _modelUsed |-> candidates[idx]], 200))
            /\ EndCall(log, iEnd)
            /\ UNCHANGED <<idx, lastErr>>
       ELSE /\ lastErr' = err
            /\ IF idx < Len(candidates)
               THEN /\ idx' = idx + 1
                    /\ StartCall(candidates[idx + 1], log, DefaultRetries)
                    /\ UNCHANGED response
               ELSE /\ Reply(AllFailed(err))
                    /\ EndCall(log, iEnd)
                    /\ UNCHANGED idx

UpstreamError(resp, data) ==
    json([error |-> "Gemini error", status |-> resp.status, data |-> data], resp.status)

ModelList(data) ==
    json([models |-> modelNames(data),
          note |-> "Pick one of these names and set GEMINI_MODEL in Cloudflare env vars (Production), then redeploy."],
         200)

\* the model-listing file answers with `tip`
ModelListTip(data) ==
    json([models |-> modelNames(data),
          tip |-> "Pick one model name like models/gemini-1.5-flash-001 and set GEMINI_MODEL to the part after 'models/'."],
         200)

\* handleListModels up to its provider call
handleListModels ==
    /\ UNCHANGED payload
    /\ IF ~hasCredential(env)
       THEN Reply(MissingKey("Missing GEMINI_API_KEY secret")) /\ NoLoop /\ NoCall
       ELSE /\ NoLoop
            /\ StartCall(ListEndpoint, calls, DefaultRetries)
            /\ UNCHANGED <<sleeps, ret, response>>

\* handleListModels after its provider call
handleListModelsResume(resp, log, iEnd) ==
    LET data == safeJson(resp)
    IN /\ EndCall(log, iEnd)
       /\ UNCHANGED <<idx, lastErr>>
       /\ IF ~ok(resp)
          THEN Reply(UpstreamError(resp, data))
          ELSE Reply(ModelList(data))

\* export async function onRequest(context) of comment.js, line 1
onRequestFallback ==
    /\ pc = "start"
    /\ deployment = "fallback"
    /\ UNCHANGED <<other, deployment, request, env>>
    /\ IF ~isAbsoluteURL(request.url)
       THEN /\ pc' = "threw"
            /\ UNCHANGED <<handler, payload, response>> /\ NoLoop /\ NoCall
       ELSE IF request.method = "GET" /\ EndsWith(pathname(request.url), "/api/models")
       THEN handler' = "handleListModels" /\ handleListModels
       ELSE IF ~EndsWith(pathname(request.url), "/api/comment")
       THEN /\ Reply(NotFound)
            /\ UNCHANGED <<handler, payload>> /\ NoLoop /\ NoCall
       ELSE IF request.method # "POST"
       THEN /\ Reply(UsePost)
            /\ UNCHANGED <<handler, payload>> /\ NoLoop /\ NoCall
       ELSE handler' = "handleComment" /\ handleComment

-----------------------------------------------------------------------------
(* The single-model file: one hardcoded model, fetchWithRetry, resp.json() *)

\* handlePost up to `await request.json()`
handlePost ==
    /\ UNCHANGED payload /\ NoLoop /\ NoCall
    /\ IF ~isJsonRequest(request)
       THEN Reply(ExpectedJson)
       ELSE pc' = "body" /\ UNCHANGED response

\* handlePost from the request body read to its provider call
handlePostBody ==
    IF bodyThrows(request)
    THEN Reply(ServerError(bodyError(request))) /\ UNCHANGED payload /\ NoLoop /\ NoCall
    ELSE /\ payload' = sanitize(request.body)
         /\ IF ~hasCredential(env)
            THEN Reply(MissingKey("Missing GEMINI_API_KEY secret")) /\ NoLoop /\ NoCall
            ELSE /\ candidates' = <<SingleModel>>
                 /\ idx' = 1
                 /\ StartCall(SingleModel, calls, DefaultRetries)
                 /\ UNCHANGED <<lastErr, sleeps, ret, response>>

\* handlePost from `const data = await resp.json()` to the return
handlePostResume(resp, log, iEnd) ==
    /\ EndCall(log, iEnd)
    /\ UNCHANGED <<idx, lastErr>>
    /\ IF ~IsJSON(resp.text)
       THEN Reply(ServerError("Unexpected token in JSON"))
       ELSE IF ~ok(resp)
       THEN Reply(UpstreamError(resp, JSONparse(resp.text)))
       ELSE Reply(json([comment |-> commentOf(geminiText(JSONparse(resp.text)))], 200))

\* export async function onRequest(context) of the single-model file
onRequestSingle ==
    /\ pc = "start"
    /\ deployment = "single"
    /\ UNCHANGED <<other, deployment, request, env>>
    /\ IF request.method # "POST"
       THEN /\ Reply(UsePost)
            /\ UNCHANGED <<handler, payload>> /\ NoLoop /\ NoCall
       ELSE handler' = "handlePost" /\ handlePost

-----------------------------------------------------------------------------
(* comment.js, lines 208-315: the OpenAI form, a bare fetch and resp.json() *)

\* onRequestPost up to `await request.json()`
onRequestPost ==
    /\ UNCHANGED payload /\ NoLoop /\ NoCall
    /\ IF ~isJsonRequest(request)
       THEN Reply(ExpectedJson)
       ELSE pc' = "body" /\ UNCHANGED response

\* onRequestPost from the request body read to its provider call
onRequestPostBody ==
    IF bodyThrows(request)
    THEN Reply(ServerError(bodyError(request))) /\ UNCHANGED payload /\ NoLoop /\ NoCall
    ELSE /\ payload' = sanitize(request.body)
         /\ IF ~hasCredential(env)
            THEN Reply(MissingKey("Missing OPENAI_API_KEY secret")) /\ NoLoop /\ NoCall
            ELSE LET chosen == OrElse(env.model, OpenAIDefaultModel)
                     \* the value as it is, not converted: a number stays a number
                     model == IF chosen.t = "number" THEN chosen.n ELSE chosen.s
                 IN /\ candidates' = <<model>>
                    /\ idx' = 1
                    /\ StartFetch(model, calls)
                    /\ UNCHANGED <<lastErr, sleeps, ret, response>>

\* onRequestPost from `const data = await resp.json()` to the return
onRequestPostResume(resp, log, iEnd) ==
    /\ EndCall(log, iEnd)
    /\ UNCHANGED <<idx, lastErr>>
    /\ IF ~IsJSON(resp.text)
       THEN Reply(ServerError("Unexpected token in JSON"))
       ELSE IF ~ok(resp)
       THEN Reply(json([error |-> "OpenAI error", detail |-> JSONparse(resp.text)],
                       resp.status))
       ELSE Reply(json([comment |-> commentOf(extractText(JSONparse(resp.text)))], 200))

\* export async function onRequest(context) of comment.js, line 208
onRequestOpenAI ==
    /\ pc = "start"
    /\ deployment = "openai"
    /\ UNCHANGED <<other, deployment, request, env>>
    /\ IF request.method # "POST"
       THEN /\ Reply(UsePost)
            /\ UNCHANGED <<handler, payload>> /\ NoLoop /\ NoCall
       ELSE handler' = "onRequestPost" /\ onRequestPost

-----------------------------------------------------------------------------
(* The model-listing file: a bare fetch, the body parsed inside try/catch *)

\* onRequest after its provider call
onRequestModelsResume(resp, log, iEnd) ==
    LET data == IF IsJSON(resp.text) THEN JSONparse(resp.text) ELSE [raw |-> resp.text]
    IN /\ EndCall(log, iEnd)
       /\ UNCHANGED <<idx, lastErr>>
       /\ IF ~ok(resp)
          THEN Reply(UpstreamError(resp, data))
          ELSE Reply(ModelListTip(data))

\* export async function onRequest(context) of the model-listing file
onRequestModels ==
    /\ pc = "start"
    /\ deployment = "models"
    /\ UNCHANGED <<other, deployment, request, env, payload>>
    /\ handler' = "onRequest"
    /\ IF ~hasCredential(env)
       THEN Reply(MissingKey("Missing GEMINI_API_KEY secret")) /\ NoLoop /\ NoCall
       ELSE /\ NoLoop
            /\ StartFetch(ListEndpoint, calls)
            /\ UNCHANGED <<sleeps, ret, response>>

-----------------------------------------------------------------------------
(* fetch, sleep and fetchWithRetry *)

\* the handlers whose provider call goes through fetchWithRetry
usesRetry(h) == h \in {"handleComment", "handleListModels", "handlePost", "fetchWithRetry"}

\* where the handler goes on once the body of its provider call is read
Resume(resp, log, iEnd) ==
    CASE handler = "handleComment" -> handleCommentResume(resp, log, iEnd)
      [] handler = "handleListModels" -> handleListModelsResume(resp, log, iEnd)
      [] handler = "handlePost" -> handlePostResume(resp, log, iEnd)
      [] handler = "onRequestPost" -> onRequestPostResume(resp, log, iEnd)
      [] handler = "onRequest" -> onRequestModelsResume(resp, log, iEnd)

\* the provider call hands its response to the caller: fetchWithRetry returns,
\* a handler goes on to `await resp.text()` / `await resp.json()`
Return(resp, log, iEnd) ==
    /\ ret' = resp
    /\ pc' = IF handler = "fetchWithRetry" THEN "returned" ELSE "text"
    /\ EndCall(log, iEnd)
    /\ UNCHANGED <<idx, lastErr, response>>

\* the 5xx statuses retried as well as 429
retryableServerErrors(resp) == resp.status = 429 \/ resp.status >= 500

\* retrying on every failure status instead of on 429 alone
retryableAnyError(resp) == resp.status >= 400

\* `if (resp.status !== 429) return resp;`
retryable(resp) == resp.status = 429

\* `i <= retries + 1`: one attempt more than allowed
againOneMore(n, r) == n <= r + 1

\* `i < retries` instead of `i <= retries`
againOffByOne(n, r) == n < r

\* `for (let i = 0; i <= retries; i++)`: another attempt after the sleep
again(n, r) == n <= r

\* the sleep skipped after the last permitted attempt: `if (i < retries) await sleep(...)`
FetchRespondsNoFinalSleep(status, text) ==
    /\ pc = "fetch"
    /\ LET resp == Resp(status, text, Len(calls))
           log == [calls EXCEPT ![Len(calls)].status = status]
       IN IF usesRetry(handler) /\ retryable(resp) /\ i < retries
          THEN /\ last' = resp
               /\ sleeps' = Append(sleeps, [model |-> calls[Len(calls)].model,
                                            turn |-> calls[Len(calls)].turn,
                                            ms |-> backoff(deployment, i)])
               /\ calls' = log
               /\ pc' = "sleep"
               /\ UNCHANGED <<idx, lastErr, retries, i, ret, response>>
          ELSE /\ Return(resp, log, i)
               /\ UNCHANGED sleeps
    /\ UNCHANGED <<other, deployment, handler, request, env, payload, candidates>>

\* `await fetch(url, options)` resolves with a response
FetchResponds(status, text) ==
    /\ pc = "fetch"
    /\ LET resp == Resp(status, text, Len(calls))
           log == [calls EXCEPT ![Len(calls)].status = status]
       IN IF usesRetry(handler) /\ retryable(resp)
          THEN /\ last' = resp
               /\ sleeps' = Append(sleeps, [model |-> calls[Len(calls)].model,
                                            turn |-> calls[Len(calls)].turn,
                                            ms |-> backoff(deployment, i)])
               /\ calls' = log
               /\ pc' = "sleep"
               /\ UNCHANGED <<idx, lastErr, retries, i, ret, response>>
          ELSE /\ Return(resp, log, i)
               /\ UNCHANGED sleeps
    /\ UNCHANGED <<other, deployment, handler, request, env, payload, candidates>>

\* the rejection of the fetch caught by no handler: it leaves the worker
FetchRejectsUncaught ==
    /\ pc = "fetch"
    /\ calls' = [calls EXCEPT ![Len(calls)].status = Rejected]
    /\ pc' = "threw"
    /\ UNCHANGED <<other, deployment, handler, request, env, payload, candidates, idx,
                   lastErr, retries, i, last, sleeps, ret, response>>

\* `await fetch(url, options)` rejects: the handler's catch answers 500
FetchRejects ==
    /\ pc = "fetch"
    /\ calls' = [calls EXCEPT ![Len(calls)].status = Rejected]
    /\ IF handler = "fetchWithRetry"
       THEN pc' = "threw" /\ UNCHANGED response
       ELSE Reply(ServerError("fetch failed"))
    /\ UNCHANGED <<other, deployment, handler, request, env, payload, candidates, idx,
                   lastErr, retries, i, last, sleeps, ret>>

\* the backoff sleep is over: i++, then the next attempt or `return last`
SleepDone ==
    /\ pc = "sleep"
    /\ IF again(i + 1, retries)
       THEN /\ i' = i + 1
            /\ calls' = Append(calls, [model |-> calls[Len(calls)].model,
                                       status |-> Pending,
                                       turn |-> calls[Len(calls)].turn])
            /\ pc' = "fetch"
            /\ UNCHANGED <<idx, lastErr, retries, last, ret, response>>
       ELSE Return(last, calls, i + 1)
    /\ UNCHANGED <<other, deployment, handler, request, env, payload, candidates, sleeps>>

\* `await request.json()` settles: the handler goes on with the body
BodyRead ==
    /\ pc = "body"
    /\ CASE handler = "handleComment" -> handleCommentBody
         [] handler = "handlePost" -> handlePostBody
         [] handler = "onRequestPost" -> onRequestPostBody
    /\ UNCHANGED <<other, deployment, handler, request, env>>

\* `await resp.text()` / `await resp.json()` settles: the handler goes on with
\* the provider body
TextRead ==
    /\ pc = "text"
    /\ Resume(ret, calls, i)
    /\ UNCHANGED <<other, deployment, handler, request, env, payload, candidates,
                   sleeps, ret>>

-----------------------------------------------------------------------------
(* The worker serving one request *)

NoBody(kind) ==
    [kind |-> kind, studentFirstName |-> Undefined, strengthTopics |-> Undefined,
     developingTopics |-> Undefined, focusTopics |-> Undefined]

SomeBody ==
    [kind |-> "object",
     studentFirstName |-> Str(<<" ", "A", "v", "a">>),
     strengthTopics |-> Arr(<<Str(<<"x", " ">>), Str(<<" ">>), Null>>),
     developingTopics |-> Str(<<"x">>),
     focusTopics |-> Undefined]

Methods == {"GET", "POST"}
Urls ==
    {<<Origin, "/api/comment">>, <<Origin, "/api/models">>, <<Origin, "/">>}
ContentTypes ==
    {Null, Str(<<"text/plain">>), Str(<<ApplicationJson>>),
     Str(<<ApplicationJson, "; charset=utf-8">>)}
RequestBodies == {NoBody("unparsable"), NoBody("null"), SomeBody}
ApiKeys == {Undefined, Str(<<>>), Str(<<"k">>)}
PreferredModels ==
    {Undefined, Str(<<" ">>), Str(<<" ", "gemini-1.5-flash", " ">>), Num(7)}
Deployments == {"fallback", "openai", "single", "models"}

EmptyPayload ==
    [studentFirstName |-> <<>>, strengthTopics |-> <<>>,
     developingTopics |-> <<>>, focusTopics |-> <<>>]

\* no second invocation
NoOther == [pc |-> "none"]

Idle ==
    /\ handler = ""
    /\ pc = "start"
    /\ payload = EmptyPayload
    /\ candidates = <<>>
    /\ idx = 0
    /\ lastErr = NullErr
    /\ i = 0
    /\ last = NoResp
    /\ calls = <<>>
    /\ sleeps = <<>>
    /\ ret = NoResp
    /\ response = NoResponse

Init ==
    /\ deployment \in Deployments
    /\ request \in [method : Methods, url : Urls, contentType : ContentTypes,
                    body : RequestBodies]
    /\ env \in [apiKey : ApiKeys, model : PreferredModels]
    /\ retries = DefaultRetries
    /\ Idle
    /\ other = NoOther

Next ==
    \/ onRequestFallback
    \/ onRequestOpenAI
    \/ onRequestSingle
    \/ onRequestModels
    \/ BodyRead
    \/ \E status \in Statuses : \E text \in ProviderBodies(handler) :
          FetchResponds(status, text)
    \/ FetchRejects
    \/ SleepDone
    \/ TextRead

Spec == Init /\ [][Next]_vars

\* The fallback worker with a credential, every fetch settling and every sleep
\* ending: the handler is never left waiting.
LiveUrls == {<<Origin, "/api/comment">>, <<Origin, "/api/models">>}
LiveModels ==
    {Undefined, Str(<<" ", "gemini-1.5-flash", " ">>), Num(7)}

\* a success carries any of the handler's bodies, a failure the provider's
\* error document
LiveBodies(h, status) ==
    IF status \in 200..299 THEN ProviderBodies(h) ELSE {BodyError}

InitLive ==
    /\ deployment = "fallback"
    /\ request \in [method : Methods, url : LiveUrls,
                    contentType : {Str(<<ApplicationJson>>)}, body : {SomeBody}]
    /\ env \in [apiKey : {Str(<<"k">>)}, model : LiveModels]
    /\ retries = DefaultRetries
    /\ Idle
    /\ other = NoOther

\* the pending fetch settles: it rejects or resolves with a response
Fetched ==
    \/ FetchRejects
    \/ \E status \in Statuses : \E text \in LiveBodies(handler, status) :
          FetchResponds(status, text)

NextLive ==
    \/ onRequestFallback
    \/ BodyRead
    \/ Fetched
    \/ SleepDone
    \/ TextRead


-----------------------------------------------------------------------------
(* fetchWithRetry called on its own, with every retries argument up to MaxRetries *)

MaxRetries == 4

NoRequest ==
    [method |-> "POST", url |-> <<Origin, "/api/comment">>, contentType |-> Null,
     body |-> NoBody("null")]
NoEnv == [apiKey |-> Undefined, model |-> Undefined]

InitRetry ==
    /\ deployment \in {"fallback", "single"}
    /\ request = NoRequest
    /\ env = NoEnv
    /\ retries \in 0..MaxRetries
    /\ Idle
    /\ other = NoOther

\* fetchWithRetry(url, options, retries)
fetchWithRetry ==
    /\ pc = "start"
    /\ handler' = "fetchWithRetry"
    /\ UNCHANGED <<other, deployment, request, env, payload, candidates, idx, lastErr,
                   sleeps, ret, response>>
    /\ StartCall(ListEndpoint, calls, retries)

\* Statuses its fetch can answer with: 2xx, 4xx, 429, 5xx.
RetryStatuses == {200, 204, 400, 404, 429, 500, 503}

NextRetry ==
    \/ fetchWithRetry
    \/ \E status \in RetryStatuses : \E text \in ProviderBodies(handler) :
          FetchResponds(status, text)
    \/ FetchRejects
    \/ SleepDone

SpecRetry == InitRetry /\ [][NextRetry]_vars

-----------------------------------------------------------------------------
(* the fallback worker with every await completing *)

SpecLive ==
    /\ InitLive /\ [][NextLive]_vars
    /\ WF_vars(onRequestFallback) /\ WF_vars(BodyRead) /\ WF_vars(Fetched)
    /\ WF_vars(SleepDone) /\ WF_vars(TextRead)

-----------------------------------------------------------------------------
(* every caller of fetchWithRetry: the function on its own with retries up to
   MaxRetries, and the two handlers that call it with its default *)

InitBackoff ==
    \/ InitRetry
    \/ /\ deployment \in {"fallback", "single"}
       /\ request = [method |-> "POST", url |-> <<Origin, "/api/comment">>,
                     contentType |-> Str(<<ApplicationJson>>), body |-> SomeBody]
       /\ env \in [apiKey : {Str(<<"k">>)}, model : LiveModels]
       /\ retries = DefaultRetries
       /\ Idle
       /\ other = NoOther

NextBackoff ==
    \/ request = NoRequest /\ NextRetry
    \/ /\ request # NoRequest
       /\ \/ onRequestFallback
          \/ onRequestSingle
          \/ BodyRead
          \/ Fetched
          \/ SleepDone
          \/ TextRead

SpecBackoff == InitBackoff /\ [][NextBackoff]_vars

-----------------------------------------------------------------------------
(* The sanitizers applied to parsed request bodies *)

MaxNameLen == 3
MaxTopics == 12

NameChars == {" ", "\r", "A", "b"}
Letters == <<"a", "b", "c", "d", "e", "f", "g", "h", "i", "j", "k", "l", "m", "n">>

NameValues ==
    {Undefined, Null, Num(0), Num(7)}
    \cup {Str(s) : s \in UNION {[1..n -> NameChars] : n \in 0..MaxNameLen}}

\* entries that are empty once trimmed: null, "", " \t\r\n"
Blank(k) ==
    CASE k % 3 = 0 -> Null
      [] k % 3 = 1 -> Str(<<>>)
      [] OTHER -> Str(<<" ", "\t", "\r", "\n">>)

\* the k-th entry of a topic list: its own letter with blanks around it, or a blank
Topic(k, present) ==
    IF present THEN Str(<<" ", Letters[k], " ">>) ELSE Blank(k)

TopicLists ==
    {Arr([k \in 1..n |-> Topic(k, k \in filled)]) :
        n \in 0..MaxTopics, filled \in SUBSET (1..MaxTopics)}

TopicValues == TopicLists \cup {Undefined, Null, Str(<<"x">>)}

SanitizerBodies ==
    {[kind |-> "object", studentFirstName |-> name, strengthTopics |-> Undefined,
      developingTopics |-> Null, focusTopics |-> Arr(<<>>)] : name \in NameValues}
    \cup
    {[kind |-> "object", studentFirstName |-> Undefined, strengthTopics |-> topics,
      developingTopics |-> Arr(<<Str(<<"x">>)>>), focusTopics |-> Undefined] :
        topics \in TopicValues}

InitSanitize ==
    /\ deployment \in Deployments \ {"models"}
    /\ request \in [method : {"POST"}, url : {<<Origin, "/api/comment">>},
                    contentType : {Str(<<ApplicationJson>>)}, body : SanitizerBodies]
    /\ env = NoEnv
    /\ retries = DefaultRetries
    /\ Idle
    /\ other = NoOther

NextSanitize ==
    \/ onRequestFallback
    \/ onRequestOpenAI
    \/ onRequestSingle
    \/ BodyRead

SpecSanitize == InitSanitize /\ [][NextSanitize]_vars

-----------------------------------------------------------------------------
(* The comment handlers serving one well-formed request, over provider texts *)

\* What a generation call answers with: texts with digits and blanks at their
\* ends, texts of digits only, bodies without any text, errors, no JSON.
TextBodies(h) ==
    IF h = "onRequestPost"
    THEN {BodyOpenAI, BodyOpenAIOutput, BodyOpenAIBlank, BodyOpenAINoOutput,
          BodyError, BodyHtml}
    ELSE {BodyGemini, BodyGeminiDigits, BodyGeminiOnlyDigits, BodyGeminiNoCandidates,
          BodyGeminiNoParts, BodyGeminiEmptyParts, BodyError, BodyHtml}

\* A rate-limited answer carries the error body; 200, 204 and 404 carry any.
TextStatuses(text) == IF text = BodyError THEN {200, 204, 404, 429} ELSE {200, 204, 404}

TextRequest ==
    [method |-> "POST", url |-> <<Origin, "/api/comment">>,
     contentType |-> Str(<<ApplicationJson>>), body |-> SomeBody]

InitText ==
    /\ deployment \in Deployments \ {"models"}
    /\ request = TextRequest
    /\ env = [apiKey |-> Str(<<"k">>), model |-> Undefined]
    /\ retries = DefaultRetries
    /\ Idle
    /\ other = NoOther

NextText ==
    \/ onRequestFallback
    \/ onRequestOpenAI
    \/ onRequestSingle
    \/ BodyRead
    \/ \E text \in TextBodies(handler) : \E status \in TextStatuses(text) :
          FetchResponds(status, text)
    \/ FetchRejects
    \/ SleepDone
    \/ TextRead

SpecText == InitText /\ [][NextText]_vars

-----------------------------------------------------------------------------
(* Two invocations of the fallback worker in one isolate, interleaved at their *)
(* awaits. Everything an invocation works on is a local of onRequest,          *)
(* handleComment and fetchWithRetry; the file has no module-level variable.    *)

MaxPairFailures == 5

\* the locals of the invocation that is running
Locals ==
    [handler |-> handler, request |-> request, pc |-> pc, payload |-> payload,
     candidates |-> candidates, idx |-> idx, lastErr |-> lastErr, retries |-> retries,
     i |-> i, last |-> last, calls |-> calls, sleeps |-> sleeps, ret |-> ret,
     response |-> response]

\* the locals of an invocation that has not run yet
Fresh(req) ==
    [handler |-> "", request |-> req, pc |-> "start", payload |-> EmptyPayload,
     candidates |-> <<>>, idx |-> 0, lastErr |-> NullErr, retries |-> DefaultRetries,
     i |-> 0, last |-> NoResp, calls |-> <<>>, sleeps |-> <<>>, ret |-> NoResp,
     response |-> NoResponse]

\* `i` declared once for the module instead of in the loop: an invocation
\* resuming finds the counter where the other one left it
SwitchSharedCounter ==
    /\ other' = Locals
    /\ handler' = other.handler
    /\ request' = other.request
    /\ pc' = other.pc
    /\ payload' = other.payload
    /\ candidates' = other.candidates
    /\ idx' = other.idx
    /\ lastErr' = other.lastErr
    /\ retries' = other.retries
    /\ last' = other.last
    /\ calls' = other.calls
    /\ sleeps' = other.sleeps
    /\ ret' = other.ret
    /\ response' = other.response
    /\ UNCHANGED <<deployment, env, i>>

\* at an await the event loop goes on with the other invocation: each one
\* resumes with its own locals
Switch ==
    /\ other' = Locals
    /\ handler' = other.handler
    /\ request' = other.request
    /\ pc' = other.pc
    /\ payload' = other.payload
    /\ candidates' = other.candidates
    /\ idx' = other.idx
    /\ lastErr' = other.lastErr
    /\ retries' = other.retries
    /\ i' = other.i
    /\ last' = other.last
    /\ calls' = other.calls
    /\ sleeps' = other.sleeps
    /\ ret' = other.ret
    /\ response' = other.response
    /\ UNCHANGED <<deployment, env>>

\* the provider's body for a status: a generation on 2xx, an error otherwise
BodyFor(status) == IF status = 200 THEN BodyGemini ELSE BodyError

\* the failures one invocation has been answered with
Failures(log) == Cardinality({k \in 1..Len(log) : log[k].status \in {404, 429}})

\* after MaxPairFailures failures the provider answers 200
PairStatuses == IF Failures(calls) < MaxPairFailures THEN Statuses ELSE {200}

InitPair ==
    /\ deployment = "fallback"
    /\ request = TextRequest
    /\ env = [apiKey |-> Str(<<"k">>), model |-> Undefined]
    /\ retries = DefaultRetries
    /\ Idle
    /\ other = Fresh([TextRequest EXCEPT !.body = NoBody("object")])

NextPair ==
    \/ onRequestFallback
    \/ BodyRead
    \/ \E status \in PairStatuses : FetchResponds(status, BodyFor(status))
    \/ FetchRejects
    \/ SleepDone
    \/ TextRead
    \/ Switch

SpecPair == InitPair /\ [][NextPair]_vars

-----------------------------------------------------------------------------
(* Properties *)

Is2xx(status) == status >= 200 /\ status <= 299

\* the calls issued for candidate c, in order
CallsOf(c) == SelectSeq(calls, LAMBDA call : call.turn = c)

\* C1. Fallback early exit: in handleComment a call that ends 2xx is the last
\* call of the request; once its body is read the response is the success
\* naming that call's model;
\* every candidate before it in list order was called and ended non-2xx, and no
\* candidate after it was ever called.  Conversely a success names a candidate
\* whose call ended 2xx.
C1_FallbackEarlyExit ==
    handler = "handleComment" =>
      /\ \A k \in 1..Len(calls) :
           Is2xx(calls[k].status) =>
             /\ k = Len(calls)
             /\ pc \in {"text", "done"}
             /\ pc = "done" =>
                  /\ response.status = 200
                  /\ response.body._modelUsed = calls[k].model
             /\ \E c \in 1..Len(candidates) :
                  /\ candidates[c] = calls[k].model
                  /\ \A b \in 1..(c - 1) :
                       /\ CallsOf(b) # <<>>
                       /\ \A j \in 1..Len(CallsOf(b)) : ~Is2xx(CallsOf(b)[j].status)
                  /\ \A a \in (c + 1)..Len(candidates) : CallsOf(a) = <<>>
      /\ (pc = "done" /\ response.status = 200) =>
           /\ calls # <<>>
           /\ Is2xx(calls[Len(calls)].status)

\* A -> 404, B -> 200 with a preferred model configured: B answers, C is not called.
C1_Witness ==
    /\ handler = "handleComment"
    /\ pc = "done"
    /\ Len(candidates) = 5
    /\ Len(calls) = 2
    /\ calls[1].status = 404
    /\ calls[2].status = 200
    /\ response.status = 200
    /\ response.body._modelUsed = candidates[2]

\* C2. fetchWithRetry: when it returns a response that is not a 429, that
\* response is the one of the last fetch, every fetch before it was answered 429,
\* there was one backoff sleep per 429 (k sleeps for k+1 fetches, k <= retries);
\* and a response that is not a 429 is never followed by a sleep or another fetch.
C2_RetryUntilNot429 ==
    handler = "fetchWithRetry" =>
      /\ (pc = "returned" /\ ret.status # 429) =>
           /\ calls # <<>>
           /\ ret.seq = Len(calls)
           /\ calls[Len(calls)].status = ret.status
           /\ \A j \in 1..(Len(calls) - 1) : calls[j].status = 429
           /\ Len(sleeps) = Len(calls) - 1
           /\ Len(calls) - 1 <= retries
      /\ \A j \in 1..Len(calls) :
           calls[j].status \in RetryStatuses \ {429} =>
             /\ j = Len(calls)
             /\ pc = "returned"
             /\ ret.seq = j

\* [429, 429, 200]: two sleeps, the 200 returned.
C2_Witness ==
    /\ handler = "fetchWithRetry"
    /\ pc = "returned"
    /\ Len(calls) = 3
    /\ calls[1].status = 429 /\ calls[2].status = 429 /\ calls[3].status = 200
    /\ Len(sleeps) = 2
    /\ ret.status = 200

\* C3. fetchWithRetry: a returned 429 is the response of fetch number retries+1,
\* every one of the retries+1 fetches was answered 429, and the value returned is
\* that last response itself (`last`), not undefined; retries+1 responses that
\* are all 429 never end in a throw and never in further fetches.
C3_ExhaustedReturnsLast429 ==
    handler = "fetchWithRetry" =>
      /\ (pc = "returned" /\ ret.status = 429) =>
           /\ Len(calls) = retries + 1
           /\ \A j \in 1..Len(calls) : calls[j].status = 429
           /\ ret = last
           /\ ret # NoResp
           /\ ret.seq = retries + 1
      /\ (Len(calls) = retries + 1 /\ \A j \in 1..Len(calls) : calls[j].status = 429) =>
           /\ pc \in {"sleep", "returned"}
           /\ last.seq = retries + 1
           /\ pc = "returned" => ret = last
      /\ Len(calls) <= retries + 1

\* retries = 3 and four 429 responses: the fourth is returned.
C3_Witness ==
    /\ handler = "fetchWithRetry"
    /\ pc = "returned"
    /\ retries = DefaultRetries
    /\ Len(calls) = DefaultRetries + 1
    /\ ret.status = 429
    /\ ret.seq = DefaultRetries + 1

CommentHandlers == {"handleComment", "handlePost", "onRequestPost"}
ListHandlers == {"handleListModels", "onRequest"}

\* the configured credential is a non-empty string
CredentialConfigured == env.apiKey.t = "string" /\ env.apiKey.s # <<>>

\* the content-type header is absent or has no "application/json" in it
NoJsonContentType ==
    \/ request.contentType.t # "string"
    \/ \A k \in 1..Len(request.contentType.s) :
          request.contentType.s[k] # "application/json"

\* C4 as stated. Missing credential: every request to a comment handler or a
\* model-listing handler with no credential configured is answered 500 with no
\* outbound call.
C4_MissingCredentialAlways500 ==
    (handler \in CommentHandlers \cup ListHandlers /\ ~CredentialConfigured /\ pc = "done")
      => (response.status = 500 /\ calls = <<>>)

\* C4 amended. With no credential configured no outbound call is ever made, and
\* the handler answers 500, except that a comment handler answers 400 when the
\* content type is not application/json (that check comes first).
C4_MissingCredentialNoCalls ==
    ~CredentialConfigured =>
      /\ calls = <<>>
      /\ pc \notin {"fetch", "sleep", "text"}
      /\ (handler \in CommentHandlers \cup ListHandlers /\ pc = "done") =>
           response.status =
             IF handler \in CommentHandlers /\ NoJsonContentType THEN 400 ELSE 500

\* handleComment, JSON content type, a well-formed body, an empty secret: 500.
C4_Witness ==
    /\ handler = "handleComment"
    /\ pc = "done"
    /\ env.apiKey = Str(<<>>)
    /\ ~NoJsonContentType
    /\ request.body.kind = "object"
    /\ response = json([error |-> "Missing GEMINI_API_KEY secret"], 500)
    /\ calls = <<>>

\* C5. Wrong content type: a comment handler given a request whose content type
\* is absent or without application/json answers 400 and makes no provider call,
\* whatever the credential and the body.
C5_WrongContentType400 ==
    (handler \in CommentHandlers /\ NoJsonContentType) =>
      /\ pc = "done"
      /\ response.status = 400
      /\ calls = <<>>

\* text/plain with a credential and a well-formed body: still 400, no call.
C5_Witness ==
    /\ handler \in CommentHandlers
    /\ request.contentType = Str(<<"text/plain">>)
    /\ CredentialConfigured
    /\ request.body.kind = "object"
    /\ response.status = 400
    /\ calls = <<>>

\* the status candidate c's calls ended with, Pending when it was never called
EndStatus(c) ==
    IF CallsOf(c) = <<>> THEN Pending ELSE CallsOf(c)[Len(CallsOf(c))].status

\* C6. All candidates fail: when every candidate's calls ended with a non-2xx
\* response, handleComment answers with the status of the last candidate of the
\* list, lastError holds that candidate's model, status and body, and the
\* response carries nothing of an earlier candidate.
C6_AllFailedSurfacesLast ==
    (/\ handler = "handleComment"
     /\ pc = "done"
     /\ candidates # <<>>
     /\ \A c \in 1..Len(candidates) :
          EndStatus(c) \in Statuses /\ ~Is2xx(EndStatus(c)))
      => /\ response.status = EndStatus(Len(candidates))
         /\ DOMAIN response.body = {"error", "message", "lastError"}
         /\ response.body.error = "Gemini error"
         /\ response.body.lastError.model = candidates[Len(candidates)]
         /\ response.body.lastError.status = EndStatus(Len(candidates))
         /\ ret.seq = Len(calls)
         /\ response.body.lastError.data =
              IF ret.text = BodyHtml THEN [raw |-> BodyHtml] ELSE JSONparse(ret.text)

\* five candidates, the first ended 404, the last was rate-limited to the end
\* with a body that is no JSON: the response is that 429.
C6_Witness ==
    /\ handler = "handleComment"
    /\ pc = "done"
    /\ Len(candidates) = 5
    /\ EndStatus(1) = 404
    /\ EndStatus(5) = 429
    /\ response.status = 429
    /\ response.body.lastError.data = [raw |-> BodyHtml]

\* candidate c was answered 429 on every one of its retries+1 attempts
Exhausted(c) ==
    /\ Len(CallsOf(c)) = DefaultRetries + 1
    /\ \A j \in 1..Len(CallsOf(c)) : CallsOf(c)[j].status = 429

\* C7 as stated. Whenever a provider call was rate-limited through all of its
\* attempts, the comment handler's response is the 429 upstream error, never a
\* success. (Stated for requests whose last provider body is JSON, the case
\* that does not depend on how a handler reads a malformed body.)
C7_ExhaustedAlways429 ==
    (/\ handler \in {"handleComment", "handlePost"}
     /\ pc = "done"
     /\ ret.text # BodyHtml
     /\ \E c \in 1..Len(candidates) : Exhausted(c))
      => response.status = 429

\* C7 amended. When the last candidate of the list (the only model of the
\* single-model handler) was rate-limited through all of its attempts, the
\* response is never a success: handleComment answers the 429 upstream error
\* with lastError naming that candidate; handlePost answers 429 when the 429's
\* body is JSON and the generic 500 when it is not. An exhausted earlier
\* candidate of handleComment is followed by a call for the next candidate.
C7_ExhaustedLastCandidate ==
    /\ (/\ handler \in {"handleComment", "handlePost"}
        /\ pc = "done"
        /\ candidates # <<>>
        /\ Exhausted(Len(candidates)))
         => /\ response.status # 200
            /\ "comment" \notin DOMAIN response.body
            /\ handler = "handleComment" =>
                 /\ response.status = 429
                 /\ response.body.lastError.status = 429
                 /\ response.body.lastError.model = candidates[Len(candidates)]
            /\ handler = "handlePost" =>
                 response.status = IF ret.text = BodyHtml THEN 500 ELSE 429
    /\ handler = "handleComment" =>
         \A c \in 1..(Len(candidates) - 1) :
            (Exhausted(c) /\ pc \notin {"sleep", "text"}) => CallsOf(c + 1) # <<>>

\* handleComment: the first candidate rate-limited to the end, the last one too.
C7_Witness ==
    /\ handler = "handleComment"
    /\ pc = "done"
    /\ Exhausted(1)
    /\ Exhausted(Len(candidates))
    /\ response.status = 429

\* C8 as stated. Malformed provider body: in every handler a provider body that
\* is no JSON is wrapped as {raw: text} and the handler goes on; with a non-2xx
\* status the client receives the upstream error with the provider's status
\* and the raw body attached.
C8_MalformedBodyWrapped ==
    (/\ handler \in CommentHandlers \cup ListHandlers
     /\ pc = "done"
     /\ calls # <<>>
     /\ ret.seq = Len(calls)
     /\ calls[Len(calls)].status = ret.status
     /\ ret.text = BodyHtml)
      => IF Is2xx(ret.status)
         THEN response.status = 200
         ELSE /\ response.status = ret.status
              /\ \/ /\ "lastError" \in DOMAIN response.body
                    /\ response.body.lastError.data = [raw |-> BodyHtml]
                 \/ /\ "data" \in DOMAIN response.body
                    /\ response.body.data = [raw |-> BodyHtml]
                 \/ /\ "detail" \in DOMAIN response.body
                    /\ response.body.detail = [raw |-> BodyHtml]

\* the trimmed string form of an entry; null and undefined count as ""
Core(v) == Trim(String(Coalesce(v, Str(<<>>))))

\* the non-empty trimmed values of an input list, in input order
NonEmptyValues(a) ==
    SelectSeq([k \in 1..Len(a) |-> Core(a[k])], LAMBDA x : x # <<>>)

FirstN(q, n) == [k \in 1..(IF Len(q) < n THEN Len(q) ELSE n) |-> q[k]]

\* C9 as stated. Topic-list truncation: an input list longer than 10 entries is
\* sanitized to exactly 10 entries, the first 10 non-empty trimmed values.
C9_LongListGivesTen ==
    (/\ handler \in CommentHandlers
     /\ pc = "done"
     /\ request.body.strengthTopics.t = "array"
     /\ Len(request.body.strengthTopics.a) > 10)
      => /\ Len(payload.strengthTopics) = 10
         /\ payload.strengthTopics =
              FirstN(NonEmptyValues(request.body.strengthTopics.a), 10)

\* C9 amended. The sanitized list is, in input order, the first 10 non-empty
\* trimmed values of the input, or all of them when there are fewer than 10: it
\* never has more than 10 entries, and has exactly 10 when at least 10 entries
\* of the input are non-empty after trimming. An input that is no array gives
\* the empty list.
C9_TopicsCapped ==
    (handler \in CommentHandlers /\ pc = "done" /\ request.body.kind = "object") =>
      IF request.body.strengthTopics.t = "array"
      THEN LET values == NonEmptyValues(request.body.strengthTopics.a)
           IN /\ payload.strengthTopics = FirstN(values, 10)
              /\ Len(payload.strengthTopics) <= 10
              /\ Len(values) >= 10 => Len(payload.strengthTopics) = 10
      ELSE payload.strengthTopics = <<>>

\* twelve entries, a blank among the first ten, ten values kept.
C9_Witness ==
    /\ handler \in CommentHandlers
    /\ pc = "done"
    /\ request.body.strengthTopics.t = "array"
    /\ Len(request.body.strengthTopics.a) = 12
    /\ \E k \in 1..10 : Core(request.body.strengthTopics.a[k]) = <<>>
    /\ Len(payload.strengthTopics) = 10
    /\ payload.strengthTopics[10] = <<"k">>

\* C10 as stated. Name defaulting: the sanitized studentFirstName is "Student"
\* when the supplied name is missing or empty after trimming, the trimmed
\* string form of the supplied name otherwise, and never the empty string.
C10_NameDefaulted ==
    (handler \in CommentHandlers /\ pc = "done" /\ request.body.kind = "object") =>
      LET name == request.body.studentFirstName
          missing == name.t \in {"undefined", "null"}
      IN /\ payload.studentFirstName # <<>>
         /\ payload.studentFirstName =
              IF missing \/ Trim(String(name)) = <<>>
              THEN <<"S", "t", "u", "d", "e", "n", "t">>
              ELSE Trim(String(name))

\* the comment handlers' 200 response carrying a comment
Commented ==
    /\ pc = "done"
    /\ handler \in CommentHandlers
    /\ response.status = 200

\* C11. Digit-free output: the comment of every 200 response has no character
\* in 0-9 and no whitespace at either end, whatever text the provider sent, and
\* stripDigits leaves it as it is.
C11_CommentDigitFree ==
    Commented =>
        LET comment == response.body.comment
        IN /\ \A k \in 1..Len(comment) :
                 comment[k] \notin {"0", "1", "2", "3", "4", "5", "6", "7", "8", "9"}
           /\ comment # <<>> =>
                 comment[1] \notin Whitespace /\ comment[Len(comment)] \notin Whitespace
           /\ stripDigits(comment) = comment

\* a provider text with digits outside its blanks came back as "Ava" / "Cy"
C11_Witness ==
    /\ Commented
    /\ \/ ret.text = BodyGeminiDigits /\ response.body.comment = <<"A", "v", "a">>
       \/ ret.text = BodyOpenAIOutput /\ response.body.comment = <<"C", "y">>

\* JSON bodies no text can be extracted from: no candidates, no parts, only
\* empty fragments, no output, an object of another shape
NoTextBodies ==
    {BodyGeminiNoCandidates, BodyGeminiNoParts, BodyGeminiEmptyParts,
     BodyOpenAIBlank, BodyOpenAINoOutput, BodyError}

\* C17. Empty extraction: a provider call that ends 2xx with a body no text can
\* be extracted from is the request's last call, and the handler answers 200
\* with the empty string as comment.
C17_EmptyExtractionGives200 ==
    \A k \in 1..Len(calls) :
        /\ handler \in CommentHandlers
        /\ Is2xx(calls[k].status)
        /\ ret.seq = k
        /\ ret.text \in NoTextBodies
        => /\ k = Len(calls)
           /\ pc \in {"text", "done"}
           /\ pc = "done" =>
                /\ response.status = 200
                /\ response.body.comment = <<>>

\* the second candidate answered 204 with a body without parts
C17_Witness ==
    /\ pc = "done"
    /\ handler = "handleComment"
    /\ idx = 2
    /\ ret.status = 204
    /\ ret.text = BodyGeminiNoParts
    /\ response.status = 200
    /\ response.body.comment = <<>>

\* C12. Handler boundary: no exception leaves the exported onRequest; a request
\* body that does not parse or is no object, a fetch that rejects and a
\* provider body that does not parse are each answered with the JSON 500
\* "Server error", and a worker that is done has a response.
C12_NoExceptionLeavesOnRequest ==
    /\ pc # "threw"
    /\ pc = "done" => response # NoResponse
    /\ (/\ pc = "done"
        /\ handler \in CommentHandlers
        /\ request.contentType \in {Str(<<ApplicationJson>>),
                                    Str(<<ApplicationJson, "; charset=utf-8">>)}
        /\ request.body.kind # "object")
         => /\ calls = <<>>
            /\ response.status = 500
            /\ response.body.error = "Server error"
            /\ "detail" \in DOMAIN response.body
    /\ (calls # <<>> /\ calls[Len(calls)].status = Rejected)
         => /\ pc = "done"
            /\ response.status = 500
            /\ response.body.error = "Server error"
            /\ "detail" \in DOMAIN response.body
    /\ (/\ pc = "done"
        /\ handler \in {"handlePost", "onRequestPost"}
        /\ calls # <<>>
        /\ calls[Len(calls)].status # Rejected
        /\ ret.text = BodyHtml)
         => /\ response.status = 500
            /\ response.body.error = "Server error"

\* handleComment: the first candidate answered 404, the fetch for the second
\* one rejects, the catch answers 500
C12_Witness ==
    /\ handler = "handleComment"
    /\ pc = "done"
    /\ Len(calls) = 2
    /\ calls[1].status = 404
    /\ calls[2].status = Rejected
    /\ response = ServerError("fetch failed")

\* C13. Retry trigger: fetchWithRetry goes on to a sleep and another fetch only
\* after a 429; a first response with any other status (2xx, another 4xx, 5xx)
\* is returned at once, after one fetch and no sleep.
C13_RetryOnlyOn429 ==
    handler = "fetchWithRetry" =>
      /\ \A k \in 1..(Len(calls) - 1) : calls[k].status = 429
      /\ Len(sleeps) = Cardinality({k \in 1..Len(calls) : calls[k].status = 429})
      /\ (calls # <<>> /\ calls[1].status \in RetryStatuses \ {429}) =>
           /\ pc = "returned"
           /\ Len(calls) = 1
           /\ sleeps = <<>>
           /\ ret.seq = 1
           /\ ret.status = calls[1].status

\* a first response 503 with three retries allowed: returned, no sleep
C13_Witness ==
    /\ handler = "fetchWithRetry"
    /\ retries = DefaultRetries
    /\ pc = "returned"
    /\ Len(calls) = 1
    /\ calls[1].status = 503
    /\ sleeps = <<>>
    /\ ret.status = 503

\* the provider calls without a response yet
InFlight == {k \in 1..Len(calls) : calls[k].status = Pending}

\* the sleeps started while candidate c was being tried
SleepsOf(c) == SelectSeq(sleeps, LAMBDA sl : sl.turn = c)

\* C14. Strict sequencing: at most one provider call is in flight, it is the
\* latest one and the handler is awaiting it; in handleComment the calls of one
\* candidate are consecutive, and the next candidate's first call comes only
\* after the candidate before it ended in a failure other than 429 or in
\* retries+1 answers 429 each followed by its sleep.
C14_StrictSequencing ==
    /\ Cardinality(InFlight) <= 1
    /\ InFlight # {} <=> pc = "fetch"
    /\ InFlight \subseteq {Len(calls)}
    /\ handler = "handleComment" =>
         /\ \A k \in 1..Len(calls) :
               /\ calls[k].turn \in 1..Len(candidates)
               /\ calls[k].model = candidates[calls[k].turn]
         /\ \A k \in 1..(Len(calls) - 1) :
            \/ calls[k + 1].turn = calls[k].turn /\ calls[k].status = 429
            \/ \E c \in 1..(Len(candidates) - 1) :
                  /\ calls[k].turn = c
                  /\ calls[k + 1].turn = c + 1
                  /\ \A j \in (k + 1)..Len(calls) : calls[j].turn # c
                  /\ calls[k].status \notin {Pending, Rejected}
                  /\ ~Is2xx(calls[k].status)
                  /\ calls[k].status = 429 =>
                       /\ Len(CallsOf(c)) = DefaultRetries + 1
                       /\ Len(SleepsOf(c)) = DefaultRetries + 1

\* the first candidate used up its four attempts, the second one's first call
\* is in flight
C14_Witness ==
    /\ handler = "handleComment"
    /\ pc = "fetch"
    /\ Len(calls) = DefaultRetries + 2
    /\ \A k \in 1..(DefaultRetries + 1) :
          calls[k].model = candidates[1] /\ calls[k].status = 429
    /\ calls[DefaultRetries + 2] =
         [model |-> candidates[2], status |-> Pending, turn |-> 2]
    /\ Len(sleeps) = DefaultRetries + 1

\* the models of the calls, one for every turn of the candidate loop, in the
\* order they were attempted
RECURSIVE Attempted(_)
Attempted(log) ==
    IF log = <<>> THEN <<>>
    ELSE IF Len(log) > 1 /\ log[Len(log) - 1].turn = log[Len(log)].turn
    THEN Attempted(SubSeq(log, 1, Len(log) - 1))
    ELSE Append(Attempted(SubSeq(log, 1, Len(log) - 1)), log[Len(log)].model)

\* the configured preferred model as the handler reads it: the string form of
\* env.GEMINI_MODEL || "" without the white space around it
PreferredTrimmed == Trim(String(OrElse(env.model, Str(<<>>))))

ExpectedCandidates ==
    (IF PreferredTrimmed # <<>> THEN <<PreferredTrimmed>> ELSE <<>>)
    \o <<<<"gemini-1.5-flash-001">>, <<"gemini-1.5-pro-001">>,
          <<"gemini-1.5-flash">>, <<"gemini-1.5-pro">>>>

\* C15. Candidate order: in handleComment the candidate list is the preferred
\* model, when it is not empty once trimmed, followed by the four fallbacks in
\* their fixed order, and the models attempted so far are a prefix of that list.
C15_AttemptsArePrefix ==
    (handler = "handleComment" /\ calls # <<>>) =>
      LET tried == Attempted(calls)
      IN /\ candidates = ExpectedCandidates
         /\ Len(tried) <= Len(candidates)
         /\ tried = SubSeq(candidates, 1, Len(tried))
         /\ Len(tried) = idx

\* a blank GEMINI_MODEL: the four fallbacks, the first three attempted in order
C15_Witness ==
    /\ handler = "handleComment"
    /\ env.model = Str(<<" ">>)
    /\ Len(candidates) = 4
    /\ pc = "done"
    /\ response.status = 200
    /\ Attempted(calls) =
         <<<<"gemini-1.5-flash-001">>, <<"gemini-1.5-pro-001">>, <<"gemini-1.5-flash">>>>

\* C16. Backoff schedule: the sleep that follows the attempt i (0, 1, 2, ...) of
\* one fetchWithRetry invocation lasts base * 2^i milliseconds, base 800 in
\* comment.js and 1000 in the single-model file; each sleep is the double of
\* the one before it, and the first sleep of every candidate starts again at
\* the base.
C16_BackoffDoubles ==
    \A k \in 1..Len(sleeps) :
        LET before == {j \in 1..(k - 1) : sleeps[j].turn = sleeps[k].turn}
            base == IF deployment = "single" THEN 1000 ELSE 800
        IN /\ Cardinality(before) <= retries
           /\ sleeps[k].ms = base * 2 ^ Cardinality(before)
           /\ k > 1 =>
                IF sleeps[k - 1].turn = sleeps[k].turn
                THEN sleeps[k].ms = 2 * sleeps[k - 1].ms
                ELSE sleeps[k].ms = base

\* four sleeps for the first candidate, then the second one starts at 800 again
C16_Witness ==
    /\ handler = "handleComment"
    /\ Len(sleeps) = 5
    /\ [k \in 1..5 |-> sleeps[k].ms] = <<800, 1600, 3200, 6400, 800>>
    /\ sleeps[4].model = candidates[1]
    /\ sleeps[5].model = candidates[2]

\* the most calls handleComment can make: 20 with a preferred model, 16 without
CallBudget == IF PreferredTrimmed # <<>> THEN 20 ELSE 16

\* C19. Bounded work and termination: handleComment makes at most
\* |candidates| * (retries + 1) provider calls, 20 with a preferred model and 16
\* without, at most retries + 1 for each candidate, and when every fetch and
\* sleep completes it reaches a response.
C19_BoundedWorkAndTermination ==
    /\ [](handler = "handleComment" =>
            /\ calls # <<>> => Len(candidates) = (IF PreferredTrimmed # <<>> THEN 5 ELSE 4)
            /\ Len(calls) <= Len(candidates) * (retries + 1)
            /\ Len(calls) <= CallBudget
            /\ \A c \in 1..Len(candidates) : Len(CallsOf(c)) <= retries + 1)
    /\ (handler = "handleComment" ~> (pc = "done" /\ response # NoResponse))

\* every one of the five candidates rate-limited four times: 20 calls, then 429
C19_Witness ==
    /\ handler = "handleComment"
    /\ pc = "done"
    /\ Len(candidates) = 5
    /\ Len(calls) = 20
    /\ response.status = 429

\* C20. Sleep after the final attempt: in fetchWithRetry every 429 is followed by
\* a sleep, the last permitted attempt included; on exhaustion there are
\* retries + 1 fetches and as many sleeps, the last one of base * 2^retries ms,
\* and the 429 is returned only once that sleep is over, with no fetch after it.
C20_SleepAfterFinalAttempt ==
    handler = "fetchWithRetry" =>
      LET answered429 == {k \in 1..Len(calls) : calls[k].status = 429}
          base == IF deployment = "single" THEN 1000 ELSE 800
      IN /\ Len(sleeps) = Cardinality(answered429)
         /\ (Len(calls) = retries + 1 /\ calls[Len(calls)].status = 429) =>
              /\ Len(sleeps) = retries + 1
              /\ sleeps[retries + 1].ms = base * 2 ^ retries
              /\ pc \in {"sleep", "returned"}
              /\ pc = "sleep" => ret = NoResp
         /\ (pc = "returned" /\ ret.status = 429) =>
              /\ Len(calls) = retries + 1
              /\ Len(sleeps) = Len(calls)
              /\ ret.seq = Len(calls)

\* retries = 3 in comment.js: four fetches, four sleeps, the last of 6400 ms
C20_Witness ==
    /\ handler = "fetchWithRetry"
    /\ deployment = "fallback"
    /\ retries = DefaultRetries
    /\ pc = "returned"
    /\ ret.status = 429
    /\ Len(calls) = 4
    /\ Len(sleeps) = 4
    /\ sleeps[4].ms = 6400

\* What handleComment does alone when its provider calls are answered as `log`
\* records, from the call for candidate c that follows n answers 429:
\* where it stands, its response, candidate index, retry counter and lastErr,
\* and whether `log` names the models it would have called.
RECURSIVE Solo(_, _, _, _, _)
Solo(loc, log, c, n, err) ==
    LET s == Head(log).status
        rest == Tail(log)
        model == loc.candidates[c]
        data == safeJson(Resp(s, BodyFor(s), 0))
        failure == [t |-> "object", status |-> s, data |-> data, model |-> model]
        Stop(at, r, count, e) ==
            [pc |-> at, response |-> r, idx |-> c, i |-> count, lastErr |-> e,
             fits |-> Head(log).model = model /\ Head(log).turn = c /\ rest = <<>>]
        Mismatch == Stop("none", NoResponse, n, err)
        Then(run) == [run EXCEPT !.fits = @ /\ Head(log).model = model /\ Head(log).turn = c]
        Failed(count) ==
            IF c = Len(loc.candidates) THEN Stop("done", AllFailed(failure), count, failure)
            ELSE IF rest = <<>> THEN [Mismatch EXCEPT !.fits = FALSE]
            ELSE Then(Solo(loc, rest, c + 1, 0, failure))
    IN CASE s = Pending -> Stop("fetch", NoResponse, n, err)
         [] /\ s # Rejected /\ rest = <<>> /\ loc.pc = "text"
            /\ s = 429 => n = DefaultRetries ->
              Stop("text", NoResponse, IF s = 429 THEN n + 1 ELSE n, err)
         [] s = Rejected -> Stop("done", ServerError("fetch failed"), n, err)
         [] Is2xx(s) ->
              Stop("done",
                   json([comment |-> commentOf(geminiText(data)), _modelUsed |-> model], 200),
                   n, err)
         [] s = 429 /\ rest = <<>> /\ loc.pc = "sleep" -> Stop("sleep", NoResponse, n, err)
         [] s = 429 /\ n < DefaultRetries ->
              IF rest = <<>> THEN [Mismatch EXCEPT !.fits = FALSE]
              ELSE Then(Solo(loc, rest, c, n + 1, err))
         [] s = 429 -> Failed(n + 1)
         [] OTHER -> Failed(n)

\* the invocation stands where it would stand alone
AsAlone(loc) ==
    IF loc.calls = <<>>
    THEN \/ loc = Fresh(loc.request)
         \/ loc = [Fresh(loc.request) EXCEPT !.handler = "handleComment", !.pc = "body"]
         \/ loc.pc \in {"done", "threw"} /\ loc.sleeps = <<>>
    ELSE LET solo == Solo(loc, loc.calls, 1, 0, NullErr)
         IN /\ solo.fits
            /\ loc.pc = solo.pc
            /\ loc.response = solo.response
            /\ loc.idx = solo.idx
            /\ loc.i = solo.i
            /\ loc.lastErr = solo.lastErr
            /\ loc.payload = sanitize(loc.request.body)
            /\ Len(loc.sleeps) = Cardinality({k \in 1..Len(loc.calls) : loc.calls[k].status = 429})

\* C18. Request isolation: of two invocations interleaved at their awaits, each
\* one has the response, the provider calls, the retry counter, the candidate
\* index and the lastErr it would have if it were handled alone with the same
\* provider answers.
C18_RequestsIsolated == AsAlone(Locals) /\ AsAlone(other)

\* one invocation sleeps after its second 429 while the other one awaits the
\* fetch for its second candidate
C18_Witness ==
    /\ pc = "sleep" /\ i = 1 /\ idx = 1 /\ Len(calls) = 2
    /\ other.pc = "fetch" /\ other.i = 0 /\ other.idx = 2 /\ Len(other.calls) = 2
    /\ payload # other.payload

====
